---- MODULE Spec2Model ----
(***************************************************************************)
(* Model of the single-choice selection prompt of src/prompts/select.rs:   *)
(* the Select configuration, SelectPrompt::new, the filter recomputation,  *)
(* the cursor navigation, the selection resolution and the interaction     *)
(* loop of SelectPrompt::prompt.                                           *)
(*                                                                         *)
(* Indices are 0-based as in the source: cursor_index is an index into     *)
(* filtered_options, whose elements are indices into options.  TLA+        *)
(* sequences are 1-based, so element i of a vector v is v[i + 1].          *)
(* usize arithmetic is modelled on the naturals: cursor_index never        *)
(* exceeds the catalog length, so saturating_add never saturates.          *)
(***************************************************************************)
EXTENDS Naturals, Sequences, FiniteSets

(* ------------------------------ bounds --------------------------------- *)

\* largest Option Catalog the configuration is drawn from
MaxN == 3

\* longest filter text the Text Input Buffer is allowed to hold
MaxLen == 2

\* longest run of move_down operations counted from construction
MaxDowns == 4

(* ------------------------- configuration space ------------------------- *)

\* characters a Key::Char carries to the buffer (the space character is kept
\* apart; upper case occurs in the labels only)
Chars == {"a", "p", "j", "k"}

Modifiers == {"NONE", "SHIFT"}

\* labels the Option Catalog is built from, in catalog order
LabelPool == << <<"k", "a">>, <<"A", "p">>, <<"p", "a", "j">>, <<"a">> >>

Label(i) == LabelPool[(i % Len(LabelPool)) + 1]

\* the catalog of n options
Catalog(n) == [i \in 1..n |-> Label(i - 1)]

FilterNames == {"default", "never", "odd_index"}

Formatters == {"default", "custom"}

HelpMessages == {<<>>, <<"help">>}

PageSizes == {1, 2}

\* Option<T>
None == <<>>

Some(x) == <<x>>

(* --------------------------- pure functions ---------------------------- *)

to_lowercase_char(c) == IF c = "A" THEN "a" ELSE c

to_lowercase(s) == [i \in 1..Len(s) |-> to_lowercase_char(s[i])]

\* str::contains
contains(hay, needle) ==
    \E k \in 0..(Len(hay) - Len(needle)) :
        \A j \in 1..Len(needle) : hay[k + j] = needle[j]

\* config::DEFAULT_FILTER: case-insensitive substring match against the label
DEFAULT_FILTER(val, opt, i) == contains(to_lowercase(opt), to_lowercase(val))

\* the Filter Predicate of the configuration, applied as (self.filter)(&val, opt, i)
ApplyFilter(f, val, opt, i) ==
    CASE f = "default"   -> DEFAULT_FILTER(val, opt, i)
      [] f = "never"     -> FALSE
      [] f = "odd_index" -> i % 2 = 1

\* OptionAnswer::new(index, value)
OptionAnswer(i, opt) == [index |-> i, value |-> opt]

\* slice::get with a 0-based index
Get(v, i) == IF i < Len(v) THEN Some(v[i + 1]) ELSE None

RECURSIVE FilterMapReversed(_, _, _, _)
\* the filter_map collecting the matching indices in reverse catalog order
FilterMapReversed(opts, f, val, i) ==
    IF i >= Len(opts) THEN <<>>
    ELSE FilterMapReversed(opts, f, val, i + 1)
         \o (IF val = <<>> THEN <<i>>
             ELSE IF ApplyFilter(f, val, opts[i + 1], i) THEN <<i>>
             ELSE <<>>)

RECURSIVE FilterMap(_, _, _, _)
\* the filter_map of filter_options over the enumerated catalog, from index i on
FilterMap(opts, f, val, i) ==
    IF i >= Len(opts) THEN <<>>
    ELSE (IF val = <<>> THEN <<i>>
          ELSE IF ApplyFilter(f, val, opts[i + 1], i) THEN <<i>>
          ELSE <<>>) \o FilterMap(opts, f, val, i + 1)

RECURSIVE FilterMapNoShortCircuit(_, _, _, _)
\* the filter_map without the arm for the empty filter text
FilterMapNoShortCircuit(opts, f, val, i) ==
    IF i >= Len(opts) THEN <<>>
    ELSE (IF ApplyFilter(f, val, opts[i + 1], i) THEN <<i>> ELSE <<>>)
         \o FilterMapNoShortCircuit(opts, f, val, i + 1)

\* filter_options asking the predicate even for the empty filter text
filter_options_no_short_circuit(opts, f, val) ==
    FilterMapNoShortCircuit(opts, f, val, 0)

\* filter_options returning every index whatever the filter text is
filter_options_unfiltered(opts, f, val) == [i \in 1..Len(opts) |-> i - 1]

\* SelectPrompt::filter_options
filter_options(opts, f, val) == FilterMap(opts, f, val, 0)

\* Vec::from_iter(0..len)
from_iter_range(len) == [i \in 1..len |-> i - 1]

\* move_cursor_up without the wrap to the last row
move_cursor_up_no_wrap(cursor, len) ==
    IF cursor >= 1 THEN cursor - 1 ELSE 0

\* the cursor after SelectPrompt::move_cursor_up
move_cursor_up(cursor, len) ==
    IF cursor >= 1 THEN cursor - 1
    ELSE IF len >= 1 THEN len - 1
    ELSE 0

\* move_cursor_down wrapping one row too late
move_cursor_down_late_wrap(cursor, len) ==
    IF cursor + 1 > len THEN 0 ELSE cursor + 1

\* move_cursor_down leaving the cursor alone while the list is empty
move_cursor_down_keep_on_empty(cursor, len) ==
    IF len = 0 THEN cursor
    ELSE IF cursor + 1 >= len THEN 0 ELSE cursor + 1

\* the cursor after SelectPrompt::move_cursor_down
move_cursor_down(cursor, len) ==
    IF cursor + 1 >= len THEN 0 ELSE cursor + 1

\* the clamp of on_change setting the cursor to the length, not the last row
clamp_cursor_to_len(cursor, options) ==
    IF Len(options) > 0 /\ Len(options) <= cursor THEN Len(options) ELSE cursor

\* the clamp of on_change missing the cursor that equals the new length
clamp_cursor_strict(cursor, options) ==
    IF Len(options) > 0 /\ Len(options) < cursor THEN Len(options) - 1 ELSE cursor

\* the clamp of on_change without the test for a non-empty new list
clamp_cursor_unguarded(cursor, options) ==
    IF Len(options) <= cursor
    THEN (IF Len(options) >= 1 THEN Len(options) - 1 ELSE 0)
    ELSE cursor

\* the cursor after the clamp of SelectPrompt::on_change, for the new list
clamp_cursor(cursor, options) ==
    IF Len(options) > 0 /\ Len(options) <= cursor
    THEN (IF Len(options) >= 1 THEN Len(options) - 1 ELSE 0)
    ELSE cursor

\* get_final_answer taking the cursor for the catalog index
get_final_answer_by_cursor(filtered, cursor, opts) ==
    IF cursor < Len(filtered)
    THEN Some(OptionAnswer(cursor, opts[cursor + 1]))
    ELSE None

\* SelectPrompt::get_final_answer
get_final_answer(filtered, cursor, opts) ==
    LET fi == Get(filtered, cursor)
    IN  IF fi = None THEN None
        ELSE LET o == Get(opts, fi[1])
             IN  IF o = None THEN None ELSE Some(OptionAnswer(fi[1], o[1]))

\* SelectPrompt::new starting at the top whatever the configuration says
new_cursor_zero(s) == 0

\* cursor_index: so.starting_cursor in SelectPrompt::new
new_cursor(s) == s.starting_cursor

\* the construction check accepting the cursor one past the last option
new_fails_gt(s) ==
    Len(s.options) = 0 \/ s.starting_cursor > Len(s.options)

\* the construction check without the test of the starting cursor
new_fails_empty_only(s) == Len(s.options) = 0

\* the construction check of SelectPrompt::new
new_fails(s) ==
    Len(s.options) = 0 \/ s.starting_cursor >= Len(s.options)

(* ---------------------------- Text Input Buffer ------------------------- *)

\* the Key values the Renderer can deliver
Key(kind, c, mod) == [kind |-> kind, c |-> c, mod |-> mod]

NoKey == Key("None", "", "NONE")

Keys ==
    {Key("Cancel", "", "NONE"), Key("Submit", "", "NONE"), Key("Backspace", "", "NONE")}
    \cup {Key(k, "", m) : k \in {"Up", "Down"}, m \in Modifiers}
    \cup {Key("Char", c, m) : c \in Chars \cup {" "}, m \in Modifiers}

\* Input::handle_key: the outcomes [content, dirty] of handing a key to the
\* buffer.  A character is appended, Backspace removes the last character,
\* any other key leaves the content alone; a key that changes the content
\* reports dirty, one that does not may report either.
handle_key(content, k) ==
    IF k.kind = "Char"
    THEN {[content |-> Append(content, k.c), dirty |-> TRUE]}
    ELSE IF k.kind = "Backspace" /\ Len(content) > 0
    THEN {[content |-> SubSeq(content, 1, Len(content) - 1), dirty |-> TRUE]}
    ELSE {[content |-> content, dirty |-> d] : d \in BOOLEAN}

(* ------------------------------- state --------------------------------- *)

VARIABLES
    so,                 \* the Select configuration handed to prompt
    pc,                 \* position in Select::prompt / SelectPrompt::prompt
    terminal,           \* the terminal and renderer have been acquired
    cursor_index,       \* SelectPrompt.cursor_index
    input,              \* content of SelectPrompt.input
    filtered_options,   \* SelectPrompt.filtered_options
    key,                \* the key read in the current loop iteration
    dirty,              \* the dirty flag of the latest on_change call
    final_answer,       \* Option<OptionAnswer> assigned before the break
    result,             \* what prompt returned, "Pending" until it returns
    cleaned,            \* renderer.cleanup has been called
    calls,              \* the functions the latest step called
    prev_cursor,        \* cursor_index before the latest on_change call
    downs,              \* move_down operations so far, while nothing else was dispatched
    io_ops,             \* the terminal and renderer operations performed so far
    printed             \* the option rows printed by the render of this iteration

vars == <<so, pc, terminal, cursor_index, input, filtered_options, key, dirty,
          final_answer, result, cleaned, calls, prev_cursor, downs, io_ops, printed>>

\* not (or no longer) counting move_down operations
Untracked == MaxDowns + 1

Configs ==
    [options : {Catalog(n) : n \in 0..MaxN},
     starting_cursor : 0..(MaxN + 1),
     vim_mode : BOOLEAN,
     page_size : PageSizes,
     filter : FilterNames,
     formatter : Formatters,
     help_message : HelpMessages]

Init ==
    /\ so \in Configs
    /\ pc = "prompt"
    /\ terminal = FALSE
    /\ cursor_index = 0
    /\ input = <<>>
    /\ filtered_options = <<>>
    /\ key = NoKey
    /\ dirty = FALSE
    /\ final_answer = None
    /\ result = "Pending"
    /\ cleaned = FALSE
    /\ calls = {}
    /\ prev_cursor = 0
    /\ downs = 0
    /\ io_ops = {}
    /\ printed = <<>>

\* the fields of SelectPrompt
prompt_state == <<cursor_index, input, filtered_options>>

(* ------------------------------ actions -------------------------------- *)

\* Select::prompt: CrosstermTerminal::new()? and Renderer::new(terminal)?
AcquireTerminal ==
    /\ pc = "prompt"
    /\ calls' = {"CrosstermTerminal::new", "Renderer::new"}
    /\ \E ok \in BOOLEAN :
        IF ok
        THEN terminal' = TRUE /\ pc' = "new" /\ result' = result
        ELSE terminal' = FALSE /\ pc' = "returned" /\ result' = "IoError"
    /\ io_ops' = io_ops \cup {"acquire"}
    /\ UNCHANGED <<so, cursor_index, input, filtered_options, key, dirty,
                   final_answer, cleaned, prev_cursor, downs, printed>>

\* SelectPrompt::new(self)?
New ==
    /\ pc = "new"
    /\ calls' = {"new"}
    /\ IF new_fails(so)
       THEN /\ pc' = "returned"
            /\ result' = "InvalidConfiguration"
            /\ UNCHANGED <<cursor_index, input, filtered_options, prev_cursor>>
       ELSE /\ pc' = "render"
            /\ result' = result
            /\ cursor_index' = new_cursor(so)
            /\ prev_cursor' = new_cursor(so)
            /\ input' = <<>>
            /\ filtered_options' = from_iter_range(Len(so.options))
    /\ UNCHANGED <<so, terminal, key, dirty, final_answer, cleaned, downs,
                   io_ops, printed>>

\* the choices of render: the filtered indices mapped by position, not by index
choices_by_position(filtered, opts) ==
    [p \in 1..Len(filtered) |-> OptionAnswer(p - 1, opts[p])]

\* the choices of render: filtered_options mapped to OptionAnswer(i, options[i])
choices(filtered, opts) ==
    [p \in 1..Len(filtered) |-> OptionAnswer(filtered[p], opts[filtered[p] + 1])]

Min(a, b) == IF a <= b THEN a ELSE b

\* utils::paginate: the pages [content, selection] it may return, each a slice
\* of at most page_size items that contains position sel, with the offset of
\* sel in the slice
paginate(page_size, items, sel) ==
    LET size == Min(page_size, Len(items))
        starts == IF sel < Len(items)
                  THEN {st \in 0..(Len(items) - size) : st <= sel /\ sel < st + size}
                  ELSE {Len(items) - size}
    IN  {[content |-> SubSeq(items, st + 1, st + size), selection |-> sel - st] :
            st \in starts}

\* the loop of render: renderer.print_option(page.selection == idx, &opt.value)
print_options(page) ==
    [p \in 1..Len(page.content) |->
        [selected |-> (page.selection = p - 1),
         index |-> page.content[p].index,
         value |-> page.content[p].value]]

\* self.render(renderer)? at the top of the loop
Render ==
    /\ pc = "render"
    /\ calls' = {"render"}
    /\ key' = NoKey
    /\ io_ops' = io_ops \cup {"render"}
    /\ \/ \E page \in paginate(so.page_size,
                                choices(filtered_options, so.options), cursor_index) :
            /\ printed' = print_options(page)
            /\ pc' = "read_key"
            /\ result' = result
       \/ /\ printed' = <<>>
          /\ pc' = "returned"
          /\ result' = "IoError"
    /\ UNCHANGED <<so, terminal, cursor_index, input, filtered_options, dirty,
                   final_answer, cleaned, prev_cursor, downs>>

\* the submit arm without the space character
IsSubmitNoSpace(k) == k.kind = "Submit"

\* the keys of the submit arm of SelectPrompt::prompt
IsSubmit(k) == k.kind = "Submit" \/ k = Key("Char", " ", "NONE")

\* the 'k' arm of on_change without its vim_mode guard
IsUpAnyMode(k, vim) == k = Key("Up", "", "NONE") \/ k = Key("Char", "k", "NONE")

\* the keys of the arms of on_change that move the cursor up
IsUp(k, vim) == k = Key("Up", "", "NONE") \/ (k = Key("Char", "k", "NONE") /\ vim)

\* the keys of the arms of on_change that move the cursor down
IsDown(k, vim) == k = Key("Down", "", "NONE") \/ (k = Key("Char", "j", "NONE") /\ vim)

\* a character that would reach the buffer is delivered only while it has room
Deliverable(k) ==
    (k.kind = "Char" /\ ~IsSubmit(k) /\ ~IsUp(k, so.vim_mode) /\ ~IsDown(k, so.vim_mode))
        => Len(input) < MaxLen

\* renderer.read_key()?
ReadKey ==
    /\ pc = "read_key"
    /\ calls' = {"read_key"}
    /\ \/ \E k \in Keys :
            /\ Deliverable(k)
            /\ key' = k
            /\ pc' = "dispatch"
            /\ result' = result
       \/ /\ key' = key
          /\ pc' = "returned"
          /\ result' = "IoError"
    /\ io_ops' = io_ops \cup {"read_key"}
    /\ printed' = <<>>
    /\ UNCHANGED <<so, terminal, cursor_index, input, filtered_options, dirty,
                   final_answer, cleaned, prev_cursor, downs>>

\* the Cancel key falling through to the submit arm before returning
DispatchCancelResolving ==
    /\ pc = "dispatch"
    /\ key.kind = "Cancel"
    /\ calls' = {"get_final_answer"}
    /\ pc' = "returned"
    /\ result' = "OperationCanceled"
    /\ final_answer' = get_final_answer(filtered_options, cursor_index, so.options)
    /\ UNCHANGED <<so, terminal, cursor_index, input, filtered_options, key,
                   dirty, cleaned, prev_cursor, downs, io_ops, printed>>

\* Key::Cancel => return Err(InquireError::OperationCanceled)
DispatchCancel ==
    /\ pc = "dispatch"
    /\ key.kind = "Cancel"
    /\ calls' = {}
    /\ pc' = "returned"
    /\ result' = "OperationCanceled"
    /\ UNCHANGED <<so, terminal, cursor_index, input, filtered_options, key,
                   dirty, final_answer, cleaned, prev_cursor, downs, io_ops, printed>>

\* the submit arm sending the cursor to the top when there is no answer
DispatchSubmitResetting ==
    /\ pc = "dispatch"
    /\ IsSubmit(key)
    /\ calls' = {"get_final_answer"}
    /\ LET answer == get_final_answer(filtered_options, cursor_index, so.options)
       IN  IF answer # None
           THEN final_answer' = answer /\ pc' = "cleanup" /\ cursor_index' = cursor_index
           ELSE final_answer' = final_answer /\ pc' = "render" /\ cursor_index' = 0
    /\ UNCHANGED <<so, terminal, input, filtered_options, key,
                   dirty, result, cleaned, prev_cursor, downs, io_ops, printed>>

\* Key::Submit | Key::Char(' ', KeyModifiers::NONE) => match self.get_final_answer()
DispatchSubmit ==
    /\ pc = "dispatch"
    /\ IsSubmit(key)
    /\ calls' = {"get_final_answer"}
    /\ LET answer == get_final_answer(filtered_options, cursor_index, so.options)
       IN  IF answer # None
           THEN final_answer' = answer /\ pc' = "cleanup"
           ELSE final_answer' = final_answer /\ pc' = "render"
    /\ UNCHANGED <<so, terminal, cursor_index, input, filtered_options, key,
                   dirty, result, cleaned, prev_cursor, downs, io_ops, printed>>

\* key => self.on_change(key)
DispatchOnChange ==
    /\ pc = "dispatch"
    /\ key.kind # "Cancel"
    /\ ~IsSubmit(key)
    /\ pc' = "render"
    /\ prev_cursor' = cursor_index
    /\ IF IsUp(key, so.vim_mode)
       THEN /\ cursor_index' = move_cursor_up(cursor_index, Len(filtered_options))
            /\ calls' = {"on_change", "move_cursor_up"}
            /\ downs' = Untracked
            /\ dirty' = FALSE
            /\ UNCHANGED <<input, filtered_options>>
       ELSE IF IsDown(key, so.vim_mode)
       THEN /\ cursor_index' = move_cursor_down(cursor_index, Len(filtered_options))
            /\ calls' = {"on_change", "move_cursor_down"}
            /\ downs' = IF downs < MaxDowns THEN downs + 1 ELSE Untracked
            /\ dirty' = FALSE
            /\ UNCHANGED <<input, filtered_options>>
       ELSE \E r \in handle_key(input, key) :
            /\ input' = r.content
            /\ dirty' = r.dirty
            /\ downs' = Untracked
            /\ IF r.dirty
               THEN LET options == filter_options(so.options, so.filter, r.content)
                    IN  /\ cursor_index' = clamp_cursor(cursor_index, options)
                        /\ filtered_options' = options
                        /\ calls' = {"on_change", "handle_key", "filter_options"}
               ELSE /\ calls' = {"on_change", "handle_key"}
                    /\ UNCHANGED <<cursor_index, filtered_options>>
    /\ UNCHANGED <<so, terminal, key, final_answer, result, cleaned, io_ops, printed>>

\* the code after the break going round the loop once more
CleanupThenLoop ==
    /\ pc = "cleanup"
    /\ calls' = {"formatter", "cleanup"}
    /\ cleaned' = TRUE
    /\ pc' = "render"
    /\ io_ops' = io_ops \cup {"cleanup"}
    /\ UNCHANGED <<so, terminal, cursor_index, input, filtered_options, key,
                   dirty, final_answer, result, prev_cursor, downs, printed>>

\* after the break: (self.formatter)(&final_answer), renderer.cleanup(..)?, Ok(final_answer)
Cleanup ==
    /\ pc = "cleanup"
    /\ calls' = {"formatter", "cleanup"}
    /\ cleaned' = TRUE
    /\ pc' = "returned"
    /\ \E ok \in BOOLEAN : result' = IF ok THEN "Ok" ELSE "IoError"
    /\ io_ops' = io_ops \cup {"cleanup"}
    /\ UNCHANGED <<so, terminal, cursor_index, input, filtered_options, key,
                   dirty, final_answer, prev_cursor, downs, printed>>

Next ==
    \/ AcquireTerminal
    \/ New
    \/ Render
    \/ ReadKey
    \/ DispatchCancel
    \/ DispatchSubmit
    \/ DispatchOnChange
    \/ Cleanup

Spec == Init /\ [][Next]_vars

\* the states of the Selection State Machine
Editing == pc \in {"render", "read_key", "dispatch"}

Submitted == final_answer # None

Cancelled == result = "OperationCanceled"

TypeOK ==
    /\ so \in Configs
    /\ pc \in {"prompt", "new", "render", "read_key", "dispatch", "cleanup", "returned"}
    /\ cursor_index \in 0..MaxN
    /\ Len(input) <= MaxLen
    /\ Len(filtered_options) <= MaxN
    /\ key \in Keys \cup {NoKey}
    /\ result \in {"Pending", "Ok", "InvalidConfiguration", "OperationCanceled", "IoError"}
    /\ downs \in 0..Untracked

(* ------------------------------ properties ----------------------------- *)

\* SelectPrompt::new has returned Ok
Constructed == terminal /\ pc \notin {"prompt", "new"} /\ result # "InvalidConfiguration"

n == Len(so.options)

L == Len(filtered_options)

\* C1: in every Editing state, a non-empty Filtered Index List has the
\* cursor inside it: 0 <= cursor_index < length(filtered_options).
C1_CursorInRange ==
    (Editing /\ L > 0) => (cursor_index >= 0 /\ cursor_index < L)

\* a filter change shortened the list to at most the cursor, which was clamped
C1_Witness ==
    /\ pc = "render"
    /\ dirty
    /\ L > 0
    /\ prev_cursor >= L
    /\ cursor_index = L - 1

\* C2: construction fails with InvalidConfiguration exactly when the catalog
\* is empty or starting_cursor >= len(options), whatever the other fields of
\* the configuration are; otherwise it succeeds and the prompt is Editing.
C2_ConstructionFailsIff ==
    (terminal /\ pc \notin {"prompt", "new"}) =>
        /\ (result = "InvalidConfiguration")
              <=> (so.options = <<>> \/ so.starting_cursor >= Len(so.options))
        /\ (calls = {"new"} /\ result # "InvalidConfiguration") => pc = "render"

\* a non-empty catalog refused for its starting cursor, the last option accepted
C2_Witness ==
    /\ result = "InvalidConfiguration"
    /\ Len(so.options) > 0
    /\ so.starting_cursor = Len(so.options)
    /\ so.vim_mode
    /\ so.filter = "never"

\* C3: selection resolution yields nothing exactly when the Filtered Index
\* List is empty or the cursor is >= its length; otherwise it yields the
\* Answer (i, options[i]) with i = filtered_options[cursor_index], and that is
\* the Answer a Submit carries.
C3_Resolution ==
    Constructed =>
        LET a == get_final_answer(filtered_options, cursor_index, so.options)
        IN  /\ (a = None) <=> (L = 0 \/ cursor_index >= L)
            /\ a # None =>
                  /\ a[1].index = filtered_options[cursor_index + 1]
                  /\ a[1].index \in 0..(n - 1)
                  /\ a[1].value = so.options[a[1].index + 1]
            /\ (pc = "render" /\ IsSubmit(key)) => (L = 0 \/ cursor_index >= L)
            /\ final_answer # None => final_answer = a

\* a Submit under a filter that hides the options before the selected one
C3_Witness ==
    /\ final_answer # None
    /\ input # <<>>
    /\ final_answer[1].index > cursor_index
    /\ final_answer[1].value = so.options[final_answer[1].index + 1]

C5_CancelImmediate ==
    [][(pc = "dispatch" /\ key.kind = "Cancel") =>
          /\ pc' = "returned"
          /\ result' = "OperationCanceled"
          /\ prompt_state' = prompt_state
          /\ final_answer' = None
          /\ cleaned' = cleaned
          /\ calls' = {}]_vars

\* cancelled with a filter text typed and the cursor away from the top
C5_Witness ==
    /\ pc = "returned"
    /\ result = "OperationCanceled"
    /\ input # <<>>
    /\ cursor_index > 0
    /\ final_answer = None

\* C6: with L >= 1 rows and the cursor in [0, L), move_up gives cursor - 1,
\* or L - 1 from 0; move_down gives cursor + 1, or 0 from L - 1; both stay in
\* [0, L) and are no-ops for L = 1.
C6_Navigation ==
    [][(pc = "dispatch" /\ L >= 1 /\ cursor_index < L) =>
          /\ IsUp(key, so.vim_mode) =>
                cursor_index' = IF cursor_index > 0 THEN cursor_index - 1 ELSE L - 1
          /\ IsDown(key, so.vim_mode) =>
                cursor_index' = IF cursor_index < L - 1 THEN cursor_index + 1 ELSE 0
          /\ (IsUp(key, so.vim_mode) \/ IsDown(key, so.vim_mode)) =>
                /\ cursor_index' < L
                /\ L = 1 => cursor_index' = cursor_index]_vars

\* move_up wrapped from the first row to the last of at least two rows
C6_Witness ==
    /\ pc = "render"
    /\ "move_cursor_up" \in calls
    /\ prev_cursor = 0
    /\ L >= 2
    /\ cursor_index = L - 1

\* C7: whenever the filter text is empty the Filtered Index List is 0..n-1 in
\* catalog order, whatever the Filter Predicate answers.
C7_EmptyFilterShowsAll ==
    (Constructed /\ input = <<>>) =>
        /\ L = n
        /\ \A i \in 1..L : filtered_options[i] = i - 1

\* the filter text was deleted back to empty under a predicate matching nothing
C7_Witness ==
    /\ pc = "render"
    /\ key = Key("Backspace", "", "NONE")
    /\ dirty
    /\ "filter_options" \in calls
    /\ input = <<>>
    /\ so.filter = "never"
    /\ L = n
    /\ n >= 2

\* C8: right after a successful construction the Filtered Index List is
\* 0..n-1, the filter text is empty, the cursor is starting_cursor, the
\* highlighted option is options[starting_cursor], and nothing else happened.
C8_InitialState ==
    (pc = "render" /\ calls = {"new"}) =>
        /\ filtered_options = [i \in 1..n |-> i - 1]
        /\ input = <<>>
        /\ cursor_index = so.starting_cursor
        /\ get_final_answer(filtered_options, cursor_index, so.options)
              = Some(OptionAnswer(so.starting_cursor, so.options[so.starting_cursor + 1]))
        /\ key = NoKey /\ ~dirty
        /\ final_answer = None /\ result = "Pending" /\ ~cleaned

\* constructed with a starting cursor away from the top
C8_Witness ==
    /\ pc = "render"
    /\ calls = {"new"}
    /\ so.starting_cursor > 0
    /\ cursor_index = so.starting_cursor

\* C9: from starting_cursor = 0 and an empty filter text, after k move_down
\* operations and nothing else the cursor is k mod n, and a Submit then
\* yields the Answer (k mod n, options[k mod n]).
C9_DownsModN ==
    (Constructed /\ so.starting_cursor = 0 /\ downs <= MaxDowns) =>
        /\ input = <<>>
        /\ cursor_index = downs % n
        /\ IsSubmit(key) => pc # "render"
        /\ final_answer # None =>
              final_answer = Some(OptionAnswer(downs % n, so.options[(downs % n) + 1]))

\* more move_down operations than options, then a Submit
C9_Witness ==
    /\ so.starting_cursor = 0
    /\ n >= 2
    /\ downs <= MaxDowns
    /\ downs > n
    /\ result = "Ok"
    /\ final_answer = Some(OptionAnswer(downs % n, so.options[(downs % n) + 1]))

\* C10: when a filter change leaves exactly one option i, the cursor is 0
\* afterwards whatever it was before, and a Submit that follows at once is
\* not ignored and yields the Answer (i, options[i]).
C10_SingleMatch ==
    (Constructed /\ dirty /\ L = 1) =>
        /\ cursor_index = 0
        /\ IsSubmit(key) => pc # "render"
        /\ final_answer # None =>
              final_answer = Some(OptionAnswer(filtered_options[1],
                                               so.options[filtered_options[1] + 1]))

\* the cursor was past the only remaining option, which is not the first one
C10_Witness ==
    /\ dirty
    /\ L = 1
    /\ prev_cursor >= 1
    /\ filtered_options[1] >= 1
    /\ result = "Ok"
    /\ final_answer # None

\* the configuration SelectPrompt::new refuses
InvalidConfig == so.options = <<>> \/ so.starting_cursor >= Len(so.options)

\* the renderer operations of the interaction loop
LoopOps == {"render", "read_key", "cleanup"}

\* C11 as stated: when InvalidConfiguration is returned no terminal or
\* renderer operation, the acquisition of the terminal included, has happened.
C11_NoIoBeforeInvalid ==
    result = "InvalidConfiguration" => io_ops = {}

\* C11 as amended: InvalidConfiguration is returned by the construction, after
\* the terminal and renderer were acquired but before any reset, print, flush
\* or key read; a refused configuration never reaches the interaction loop,
\* and the loop never returns InvalidConfiguration.
C11_InvalidBeforeLoop ==
    /\ result = "InvalidConfiguration" =>
          (InvalidConfig /\ pc = "returned" /\ io_ops = {"acquire"} /\ calls = {"new"})
    /\ InvalidConfig => io_ops \cap LoopOps = {}
    /\ (InvalidConfig /\ pc = "returned") =>
          (result = "InvalidConfiguration" \/ (result = "IoError" /\ ~terminal))
    /\ io_ops \cap LoopOps # {} => result # "InvalidConfiguration"

\* a non-empty catalog refused for its starting cursor, the terminal acquired
C11_Witness ==
    /\ result = "InvalidConfiguration"
    /\ so.options # <<>>
    /\ so.starting_cursor > Len(so.options)
    /\ terminal
    /\ io_ops = {"acquire"}

\* C12 as stated: move_down on an empty Filtered Index List leaves the cursor
\* at the value it holds.
C12_DownKeepsCursorOnEmpty ==
    [][(pc = "dispatch" /\ IsDown(key, so.vim_mode) /\ L = 0) =>
          cursor_index' = cursor_index]_vars

\* C12 as amended: move_down on an empty Filtered Index List sets the cursor
\* to 0, whatever value it held.
C12_DownResetsCursorOnEmpty ==
    [][(pc = "dispatch" /\ IsDown(key, so.vim_mode) /\ L = 0) =>
          (cursor_index' = 0 /\ filtered_options' = filtered_options /\ input' = input)]_vars

\* move_down on an empty list with a non-zero cursor kept from before
C12_Witness ==
    /\ pc = "render"
    /\ "move_cursor_down" \in calls
    /\ L = 0
    /\ prev_cursor > 0
    /\ cursor_index = 0

\* C13: a filter change with prior cursor c and new list length L' leaves the
\* cursor at L' - 1 if L' > 0 and c >= L', and at c otherwise (also for
\* L' = 0); it is never sent back to the top.
C13_ClampOnFilterChange ==
    [][(pc = "dispatch" /\ "filter_options" \in calls') =>
          LET c == cursor_index
              Lp == Len(filtered_options')
          IN  /\ (Lp > 0 /\ c >= Lp) => cursor_index' = Lp - 1
              /\ (Lp > 0 /\ c < Lp) => cursor_index' = c
              /\ Lp = 0 => cursor_index' = c]_vars

\* a filter change emptied the list and the non-zero cursor stayed
C13_Witness ==
    /\ pc = "render"
    /\ "filter_options" \in calls
    /\ dirty
    /\ L = 0
    /\ cursor_index > 0
    /\ cursor_index = prev_cursor

\* the catalog indices the filter text lets through
Matching ==
    {i \in 0..(n - 1) : input = <<>> \/ ApplyFilter(so.filter, input, so.options[i + 1], i)}

\* C14: the Filtered Index List is the strictly increasing sequence of
\* exactly the catalog indices i for which the filter text is empty or the
\* Filter Predicate holds for (filter text, label i, i), whatever the list
\* was before the change.
C14_FilteredIsMatching ==
    Constructed =>
        /\ \A p \in 1..L : filtered_options[p] \in Matching
        /\ \A i \in Matching : \E p \in 1..L : filtered_options[p] = i
        /\ \A p, q \in 1..L : p < q => filtered_options[p] < filtered_options[q]

\* a deletion widened the list from one match to two, in catalog order
C14_Witness ==
    /\ pc = "render"
    /\ key = Key("Backspace", "", "NONE")
    /\ "filter_options" \in calls
    /\ so.filter = "default"
    /\ input = <<"p">>
    /\ filtered_options = <<1, 2>>

\* C15: a Submit key or unmodified space that resolves to nothing is
\* ignored: the prompt stays Editing with cursor, list and filter text
\* unchanged; no Submit, ignored or not, changes them.
C15_IgnoredSubmit ==
    [][(pc = "dispatch" /\ IsSubmit(key)) =>
          /\ prompt_state' = prompt_state
          /\ L = 0 => (pc' = "render" /\ final_answer' = None /\ result' = "Pending"
                       /\ cleaned' = cleaned)]_vars

\* the Submit key ignored on an empty list with a non-zero cursor
C15_Witness ==
    /\ pc = "render"
    /\ key.kind = "Submit"
    /\ calls = {"get_final_answer"}
    /\ L = 0
    /\ cursor_index > 0
    /\ input # <<>>

Navigated(c) == "move_cursor_up" \in c \/ "move_cursor_down" \in c

\* C16: unmodified Up always performs move_up and unmodified Down move_down;
\* unmodified 'k' and 'j' do so exactly when vim_mode is set and then do not
\* reach the Text Input Buffer; without vim_mode they reach the buffer like any
\* character and move nothing.
C16_NavigationKeys ==
    [][(pc = "dispatch") =>
          LET up == move_cursor_up(cursor_index, L)
              down == move_cursor_down(cursor_index, L)
          IN  /\ (key = Key("Up", "", "NONE")
                    \/ (key = Key("Char", "k", "NONE") /\ so.vim_mode)) =>
                    (calls' = {"on_change", "move_cursor_up"}
                     /\ cursor_index' = up /\ input' = input)
              /\ (key = Key("Down", "", "NONE")
                    \/ (key = Key("Char", "j", "NONE") /\ so.vim_mode)) =>
                    (calls' = {"on_change", "move_cursor_down"}
                     /\ cursor_index' = down /\ input' = input)
              /\ (key \in {Key("Char", "k", "NONE"), Key("Char", "j", "NONE")}
                    /\ ~so.vim_mode) =>
                    ("handle_key" \in calls' /\ ~Navigated(calls')
                     /\ input' = Append(input, key.c))]_vars

\* 'k' typed without vim_mode went to the filter text, the cursor stayed
C16_Witness ==
    /\ pc = "render"
    /\ key = Key("Char", "k", "NONE")
    /\ ~so.vim_mode
    /\ "handle_key" \in calls
    /\ input = <<"k">>
    /\ L = 1
    /\ n >= 2

\* C17: after every render of a non-empty Filtered Index List the printed
\* rows are a slice of at most page_size rows of the list mapped in order to
\* (catalog index, label), exactly one row is marked selected, and it is the
\* row of option filtered_options[cursor_index].
C17_OneSelectedRow ==
    (pc = "read_key" /\ L > 0) =>
        LET rows == choices(filtered_options, so.options)
            marked == {p \in 1..Len(printed) : printed[p].selected}
        IN  /\ Len(printed) >= 1
            /\ Len(printed) <= so.page_size
            /\ \E st \in 0..(L - Len(printed)) :
                  \A p \in 1..Len(printed) :
                      /\ printed[p].index = filtered_options[st + p]
                      /\ printed[p].value = so.options[filtered_options[st + p] + 1]
            /\ Cardinality(marked) = 1
            /\ \A p \in marked :
                  /\ printed[p].index = filtered_options[cursor_index + 1]
                  /\ printed[p].value = so.options[filtered_options[cursor_index + 1] + 1]
                  /\ printed[p].index = rows[cursor_index + 1].index

\* under a filter, the page has moved down to keep the selected last row
C17_Witness ==
    /\ pc = "read_key"
    /\ input # <<>>
    /\ L > so.page_size
    /\ cursor_index = L - 1
    /\ printed[Len(printed)].selected
    /\ printed[Len(printed)].index > cursor_index

\* C18: the interaction leaves Editing only on a Cancel key, on a Submit or
\* unmodified space that resolves to an Answer, or on an I/O failure of the
\* render or the key read; and after it has left Editing no key is read or
\* dispatched.
C18_LoopExits ==
    /\ [][(Editing /\ ~Editing') =>
             \/ (pc = "dispatch" /\ key.kind = "Cancel"
                   /\ pc' = "returned" /\ result' = "OperationCanceled")
             \/ (pc = "dispatch" /\ IsSubmit(key) /\ L > 0
                   /\ pc' = "cleanup" /\ final_answer' # None)
             \/ (pc \in {"render", "read_key"}
                   /\ pc' = "returned" /\ result' = "IoError")]_vars
    /\ [][(pc = "dispatch" /\ key.kind # "Cancel" /\ ~(IsSubmit(key) /\ L > 0)) =>
             Editing']_vars
    /\ [][(pc \in {"cleanup", "returned"}) =>
             (pc' = "returned" /\ key' = key /\ prompt_state' = prompt_state)]_vars

\* an I/O failure of the key read ended the interaction after some editing
C18_Witness ==
    /\ pc = "returned"
    /\ result = "IoError"
    /\ calls = {"read_key"}
    /\ input # <<>>
    /\ final_answer = None
    /\ ~cleaned

\* C19: the index of a submitted Answer passes the filter text current at
\* submission: the text is empty or the Filter Predicate holds for it.
C19_SubmittedIsVisible ==
    final_answer # None =>
        LET i == final_answer[1].index
        IN  /\ i \in 0..(n - 1)
            /\ input = <<>> \/ ApplyFilter(so.filter, input, so.options[i + 1], i)

\* submitted under a filter text that hides some other option
C19_Witness ==
    /\ result = "Ok"
    /\ final_answer # None
    /\ input # <<>>
    /\ so.filter = "default"
    /\ L < n
    /\ L >= 2

\* C20: Cancel, Submit and the unmodified space never reach the Text Input
\* Buffer: their step changes neither the filter text nor the Filtered Index
\* List and runs no Filter Recomputation.
C20_NotForwarded ==
    [][(pc = "dispatch" /\ (key.kind = "Cancel" \/ key.kind = "Submit"
                             \/ key = Key("Char", " ", "NONE"))) =>
          /\ input' = input
          /\ filtered_options' = filtered_options
          /\ dirty' = dirty
          /\ calls' \cap {"on_change", "handle_key", "filter_options"} = {}]_vars

\* the unmodified space ignored as a submit on an empty list
C20_Witness ==
    /\ pc = "render"
    /\ key = Key("Char", " ", "NONE")
    /\ calls = {"get_final_answer"}
    /\ L = 0
    /\ input # <<>>

====
